---- MODULE Spec2Model ----
(***************************************************************************)
(* Model of code/strip_primer_tails.py: the per-read cleaning functions    *)
(* (trim_primer, rfind_if_not, clean_for_illumina_flag,                    *)
(* processed_sequences) and the per-file dispatcher (main,                 *)
(* trim_primers_from_file).                                                *)
(*                                                                         *)
(* Three specifications share the variables:                               *)
(*   SpecFn    applies the functions to reads drawn from bounded sets;     *)
(*   SpecFile  runs trim_primers_from_file on one file of any content;     *)
(*   Spec      runs main and its worker processes on a command line.       *)
(***************************************************************************)
EXTENDS Integers, Sequences, FiniteSets, TLC

\* ------------------------------------------------------------------------
\* Bounds
\* ------------------------------------------------------------------------
MaxReadLen == 3
MaxPrimerLen == 2
MaxPrimerMatch == 1
MaxPrimerOffset == 1
MaxMinSeqLen == 2

\* ------------------------------------------------------------------------
\* Values
\* ------------------------------------------------------------------------
Bases == {"A", "C"}

\* the phred score Illumina uses to flag a rejected tail (lambda x: x == 2)
Reject == 2
\* an ordinary phred score (allswell = [33] * 41 in the tests)
Good == 33

Quals == {Reject, Good}

\* stands for Python's None (a record, so that it compares with SeqRecords)
None == [none |-> TRUE]

SeqsUpTo(S, n) == UNION {[1..k -> S] : k \in 0..n}

\* A SeqRecord: identifier, letters, phred_quality letter annotation.
Reads(n) ==
  UNION {[id : {"r"}, seq : [1..k -> Bases], qual : [1..k -> Quals]] : k \in 0..n}

\* the read of testInternalBadReadSkippedByCleaning: the baseline of 41 T
\* with quality 2 at [5, 10) and at the last 5 positions, 33 elsewhere
BaselineLen == 41

BadTailLen == 5

BadRunStart == 5

BadRunEnd == 10

CleanedLen == 36

InternalBadRead ==
  [id |-> "r",
   seq |-> [i \in 1..BaselineLen |-> "T"],
   qual |-> [i \in 1..BaselineLen |->
               IF \/ (i - 1 >= BadRunStart /\ i - 1 < BadRunEnd)
                  \/ i - 1 >= BaselineLen - BadTailLen
               THEN Reject ELSE Good]]

Min(x, y) == IF x <= y THEN x ELSE y
Max(x, y) == IF x >= y THEN x ELSE y

\* len(record)
RLen(r) == Len(r.seq)

\* Python's s[:stop] on a list: a negative stop counts from the end.
SliceTo(s, stop) ==
  LET n == IF stop >= 0 THEN Min(stop, Len(s)) ELSE Max(Len(s) + stop, 0)
  IN  SubSeq(s, 1, n)

\* SeqRecord.__getitem__ with the slice [:stop]: letters and per-letter
\* annotations are sliced together, the identifier is kept.
RSlice(r, stop) ==
  [id |-> r.id, seq |-> SliceTo(r.seq, stop), qual |-> SliceTo(r.qual, stop)]

\* Truth value of a pipeline element in "if s": None is false, a SeqRecord
\* is true whatever its length.
Truthy(s) == s # None

\* ------------------------------------------------------------------------
\* difflib.SequenceMatcher.find_longest_match(0, len(a), 0, len(b)), no junk.
\* a and b are sequences of letters; positions in the Match are 0-based.
\* ------------------------------------------------------------------------
NoMatch == [a |-> 0, b |-> 0, size |-> 0]

\* inner loop: for j in b2j[a[i]] (ascending j); i, j are 1-based here
RECURSIVE flm_inner(_, _, _, _, _, _, _)
flm_inner(a, b, i, j, j2len, newj2len, best) ==
  IF j > Len(b) THEN [best |-> best, j2len |-> newj2len]
  ELSE IF b[j] = a[i]
       THEN LET k == (IF j = 1 THEN 0 ELSE j2len[j - 1]) + 1
                nj == [newj2len EXCEPT ![j] = k]
            IN  IF k > best.size
                THEN flm_inner(a, b, i, j + 1, j2len, nj,
                               [a |-> (i - 1) - k + 1, b |-> (j - 1) - k + 1, size |-> k])
                ELSE flm_inner(a, b, i, j + 1, j2len, nj, best)
       ELSE flm_inner(a, b, i, j + 1, j2len, newj2len, best)

\* outer loop: for i in range(alo, ahi)
RECURSIVE flm_outer(_, _, _, _, _)
flm_outer(a, b, i, j2len, best) ==
  IF i > Len(a) THEN best
  ELSE LET r == flm_inner(a, b, i, 1, j2len, [j \in 1..Len(b) |-> 0], best)
       IN  flm_outer(a, b, i + 1, r.j2len, r.best)

\* variant: the two strings are given to the matcher the other way round
\* (set_seq1(primer), set_seq2(read)), so ties go to the leftmost in b
find_longest_match_swapped(a, b) ==
  LET m == flm_outer(b, a, 1, [j \in 1..Len(a) |-> 0], NoMatch)
  IN  [a |-> m.b, b |-> m.a, size |-> m.size]

find_longest_match(a, b) ==
  flm_outer(a, b, 1, [j \in 1..Len(b) |-> 0], NoMatch)

\* variant: the read from the block on is kept, sequence[match.a:]
trim_primer_keep_tail(p, sequence, mpm, mpo) ==
  LET match == find_longest_match(sequence.seq, p)
  IN  IF match.size > mpm /\ match.b <= mpo
      THEN [id |-> sequence.id,
            seq |-> SubSeq(sequence.seq, match.a + 1, Len(sequence.seq)),
            qual |-> SubSeq(sequence.qual, match.a + 1, Len(sequence.qual))]
      ELSE sequence

\* ------------------------------------------------------------------------
\* trim_primer
\* ------------------------------------------------------------------------
\* variant: cuts behind the matched block instead of in front of it
trim_primer_cut_after_block(p, sequence, mpm, mpo) ==
  LET match == find_longest_match(sequence.seq, p)
  IN  IF match.size > mpm /\ match.b <= mpo
      THEN RSlice(sequence, match.a + match.size)
      ELSE sequence

\* variant: the offset of the block in the primer is not looked at
trim_primer_any_offset(p, sequence, mpm, mpo) ==
  LET match == find_longest_match(sequence.seq, p)
  IN  IF match.size > mpm
      THEN RSlice(sequence, match.a)
      ELSE sequence

trim_primer(p, sequence, mpm, mpo) ==
  LET match == find_longest_match(sequence.seq, p)
  IN  IF match.size > mpm /\ match.b <= mpo
      THEN RSlice(sequence, match.a)
      ELSE sequence

\* variant: the first index that is not tagged, instead of the last
rfind_if_not_first(things) ==
  LET hits == {i \in 1..(Len(things) - 1) : things[i + 1] # Reject}
  IN  IF hits # {}
      THEN CHOOSE i \in hits : \A h \in hits : i <= h
      ELSE Len(things)

\* ------------------------------------------------------------------------
\* rfind_if_not / clean_for_illumina_flag
\* ------------------------------------------------------------------------
\* next((i for i in range(len(things)-1, 0, -1) if not tagger(things[i])),
\*      len(things)); indices are 0-based, the tagger is x == 2.
\* variant: -1 instead of len(things) when nothing is found
rfind_if_not_minus_one(things) ==
  LET hits == {i \in 1..(Len(things) - 1) : things[i + 1] # Reject}
  IN  IF hits # {}
      THEN CHOOSE i \in hits : \A h \in hits : h <= i
      ELSE -1

rfind_if_not(things) ==
  LET hits == {i \in 1..(Len(things) - 1) : things[i + 1] # Reject}
  IN  IF hits # {}
      THEN CHOOSE i \in hits : \A h \in hits : h <= i
      ELSE Len(things)

\* variant: the slice stops at good_quality_end, not one past it
clean_for_illumina_flag_exclusive(sequence) ==
  LET good_quality_end == rfind_if_not(sequence.qual)
  IN  RSlice(sequence, good_quality_end)

clean_for_illumina_flag(sequence) ==
  LET good_quality_end == rfind_if_not(sequence.qual)
  IN  RSlice(sequence, good_quality_end + 1)

\* ------------------------------------------------------------------------
\* processed_sequences: the chain of generator expressions
\* ------------------------------------------------------------------------
\* variant: the length filter is strict
processed_sequences_strict(p, sequences, msl, mpm, mpo) ==
  LET trim(s) == trim_primer(p, s, mpm, mpo)
      longEnough(s) == RLen(s) > msl
      truthy_sequences == SelectSeq(sequences, Truthy)
      trimmed_sequences ==
        [i \in 1..Len(truthy_sequences) |-> trim(truthy_sequences[i])]
      truthy_trimmed == SelectSeq(trimmed_sequences, Truthy)
      clean_sequences ==
        [i \in 1..Len(truthy_trimmed) |-> clean_for_illumina_flag(truthy_trimmed[i])]
  IN  SelectSeq(clean_sequences, longEnough)

processed_sequences(p, sequences, msl, mpm, mpo) ==
  LET trim(s) == trim_primer(p, s, mpm, mpo)
      longEnough(s) == RLen(s) >= msl
      truthy_sequences == SelectSeq(sequences, Truthy)
      trimmed_sequences ==
        [i \in 1..Len(truthy_sequences) |-> trim(truthy_sequences[i])]
      truthy_trimmed == SelectSeq(trimmed_sequences, Truthy)
      clean_sequences ==
        [i \in 1..Len(truthy_trimmed) |-> clean_for_illumina_flag(truthy_trimmed[i])]
  IN  SelectSeq(clean_sequences, longEnough)

\* ------------------------------------------------------------------------
\* Files
\* ------------------------------------------------------------------------
MaxArgs == 2
MaxStreamLen == 3

\* read groups process_input_files sees, and alignments in one group
MaxGroups == 5

MaxGroupSize == 2

\* what SeqIO.parse raises on instead of yielding a record
Malformed == [malformed |-> TRUE]

\* a slot of an output file that no write has filled
Hole == [hole |-> TRUE]

\* a file on disk, and a path that os.path.exists() does not find
File(records) == [exists |-> TRUE, records |-> records]
Missing == [exists |-> FALSE, records |-> <<>>]

IsRead(x) == x # Malformed /\ x # None

\* a read cut by trim_primer, a read passed as it is, a read too short to
\* keep, and a record the parser rejects
KindT(name) == [id |-> name, seq |-> <<"C", "C", "A", "C">>, qual |-> <<Good, Good, Good, Good>>]
KindK(name) == [id |-> name, seq |-> <<"C", "C">>, qual |-> <<Good, Good>>]
KindD(name) == [id |-> name, seq |-> <<"C">>, qual |-> <<Good>>]
Kinds == {"T", "K", "D", "M"}

MakeRecord(kind, name) ==
  CASE kind = "T" -> KindT(name)
    [] kind = "K" -> KindK(name)
    [] kind = "D" -> KindD(name)
    [] OTHER -> Malformed

\* the records of a file, named by the file's tag and their position
MakeFile(tag, kinds) ==
  [i \in 1..Len(kinds) |-> MakeRecord(kinds[i], tag \o ToString(i))]

\* paths are strings of characters
PathAX == <<"a", ".", "x">>
PathAY == <<"a", ".", "y">>
PathBX == <<"b", ".", "x">>
Paths == {PathAX, PathAY, PathBX}

\* the contents of the files of Spec (SpecFile runs every file up to
\* MaxStreamLen records): empty, a kept read, a parse error, a dropped read
\* before a kept one, a kept read before a parse error
DiskStreams ==
  {<<>>, <<"T">>, <<"M">>, <<"D", "T">>, <<"K", "M">>}

\* the files a path can name: no file, or records named after the path
FilesAt(f) ==
  {Missing} \cup {File(MakeFile(f[1] \o f[3], kinds)) : kinds \in DiskStreams}

\* the disks that differ on the paths of the command line
Disks(used) ==
  {[f \in Paths |-> IF f \in used THEN d[f] ELSE Missing] :
     d \in [used -> UNION {FilesAt(f) : f \in used}]}

\* os.path.splitext(path)[0]: the path up to its last dot; leading dots of
\* the name do not start an extension
splitext_root(path) ==
  LET dots == {i \in 1..Len(path) :
                 path[i] = "." /\ \E j \in 1..(i - 1) : path[j] # "."}
  IN  IF dots = {} THEN path
      ELSE SubSeq(path, 1, (CHOOSE i \in dots : \A d \in dots : d <= i) - 1)

\* os.path.splitext(input_file)[0] + '.trimmed'
output_name(input_file) ==
  splitext_root(input_file) \o <<".", "t", "r", "i", "m", "m", "e", "d">>

\* file.readline() of the primer file: the first line with its newline
readline(line) == line \o <<"\n">>

\* write(2) of records at a file offset: overwrites, extends, leaves holes
FileWrite(content, offset, recs) ==
  LET n == Max(Len(content), offset + Len(recs))
  IN  [i \in 1..n |->
         IF i > offset /\ i <= offset + Len(recs) THEN recs[i - offset]
         ELSE IF i <= Len(content) THEN content[i]
         ELSE Hole]


\* ------------------------------------------------------------------------
\* State
\* ------------------------------------------------------------------------
VARIABLES
  primer,             \* the primer string handed to the functions
  min_sequence_len,   \* options.min_sequence_len
  min_primer_match,   \* options.min_primer_match
  max_primer_offset,  \* options.max_primer_offset
  inRead,             \* SpecFn: the read the calls start from
  fnName,             \* SpecFn: the function called last ("none" before any)
  prevName,           \* SpecFn: the function called before that
  fnArg,              \* SpecFn: argument of the last call
  fnRet,              \* SpecFn: value returned by the last call
  args,               \* the input paths of the command line
  fileData,           \* the input files: path -> File(records) or Missing
  primerFile,         \* options.primer_file: readable or not, its first line
  outFiles,           \* the output files: path -> File(slots) or Missing
  mainPc,             \* where main is
  mainIdx,            \* position of main's current for loop
  processes,          \* main's list of processes, each with its worker's state
  fatalLog,           \* the paths logging.fatal reported
  exitStatus          \* exit status of the program, None while it runs

\* the state of shard_alignments_by_chrom.process_input_files
VARIABLES
  shardPc,            \* "none", "groups" (in the loops) or "done"
  n_seen,             \* read groups seen
  total_aligned,      \* alignments counted
  shard_files,        \* chromosome -> File(lines) once opened, else Missing
  count_file,         \* the .alignment.sam.count file
  selected            \* the alignments selected for a shard so far, in order

cfgVars == <<primer, min_sequence_len, min_primer_match, max_primer_offset>>
fnVars == <<inRead, fnName, prevName, fnArg, fnRet>>
diskVars == <<args, fileData, primerFile>>
mainVars == <<mainPc, mainIdx, fatalLog, exitStatus>>
runVars == <<outFiles, processes, mainVars>>
shardVars == <<shardPc, n_seen, total_aligned, shard_files, count_file, selected>>
vars == <<cfgVars, fnVars, diskVars, runVars, shardVars>>

\* a multiprocessing.Process with the arguments main binds to it (the path
\* and the primer) and the locals of trim_primers_from_file; dropped counts
\* the reads the generators filtered out
NewProcess(f) ==
  [input_file |-> f, primer |-> primer, state |-> "initial", exitcode |-> None,
   pulled |-> 0, seq |-> None, written |-> <<>>, dropped |-> 0,
   buffer |-> <<>>, offset |-> 0]

OutPaths == {output_name(f) : f \in Paths}

\* ------------------------------------------------------------------------
\* shard_alignments_by_chrom: values
\* ------------------------------------------------------------------------
\* chromosome names (alignment.iv.chrom) as strings of characters
ChrI == <<"c", "h", "r", "I">>

ChrII == <<"c", "h", "r", "I", "I">>

ChrIRandom == <<"c", "h", "r", "I", "_", "r">>

ChrMito == <<"c", "h", "r", "M", "i", "t", "o">>

TwoMicron == <<"2", "-", "m", "i", "c", "r", "o", "n">>

Chroms == {ChrI, ChrII, ChrIRandom, ChrMito, TwoMicron}

\* one SAM alignment of a read: aligned or not, and where (iv.chrom; an
\* unaligned one has no interval, its chrom is never looked at)
Alignments ==
  {[aligned |-> FALSE, chrom |-> <<>>]} \cup [aligned : {TRUE}, chrom : Chroms]

\* the alignments itertools.groupby hands over for one read name
Groups == SeqsUpTo(Alignments, MaxGroupSize) \ {<<>>}

\* the state of process_input_files before it runs
NoShard ==
  /\ shardPc = "none"
  /\ n_seen = 0
  /\ total_aligned = 0
  /\ shard_files = [c \in Chroms |-> Missing]
  /\ count_file = Missing
  /\ selected = <<>>

\* the state a specification leaves alone
NoDisk ==
  /\ args = <<>>
  /\ fileData = [f \in Paths |-> Missing]
  /\ primerFile = [readable |-> FALSE, line |-> <<>>]
  /\ outFiles = [o \in OutPaths |-> Missing]
  /\ mainPc = "none"
  /\ mainIdx = 0
  /\ processes = <<>>
  /\ fatalLog = <<>>
  /\ exitStatus = None

NoCalls ==
  /\ inRead = None
  /\ fnName = "none"
  /\ prevName = "none"
  /\ fnArg = None
  /\ fnRet = None

\* ------------------------------------------------------------------------
\* SpecFn: the functions applied to bounded inputs
\* ------------------------------------------------------------------------
InitFn ==
  /\ primer \in SeqsUpTo(Bases, MaxPrimerLen) \ {<<>>}
  /\ min_sequence_len \in 0..MaxMinSeqLen
  /\ min_primer_match \in 0..MaxPrimerMatch
  /\ max_primer_offset \in 0..MaxPrimerOffset
  /\ NoDisk
  /\ inRead \in Reads(MaxReadLen)
  /\ fnName = "none"
  /\ prevName = "none"
  /\ fnArg = None
  /\ fnRet = None
  /\ NoShard

\* trim_primer(primer, read, ...)
CallTrimPrimer ==
  /\ fnName = "none"
  /\ fnArg' = inRead
  /\ fnRet' = trim_primer(primer, inRead, min_primer_match, max_primer_offset)
  /\ prevName' = fnName
  /\ fnName' = "trim_primer"
  /\ UNCHANGED <<cfgVars, inRead, diskVars, shardVars, runVars>>

\* trim_primer applied to what trim_primer returned
CallTrimPrimerAgain ==
  /\ fnName = "trim_primer"
  /\ prevName = "none"
  /\ fnArg' = fnRet
  /\ fnRet' = trim_primer(primer, fnRet, min_primer_match, max_primer_offset)
  /\ prevName' = fnName
  /\ fnName' = "trim_primer"
  /\ UNCHANGED <<cfgVars, inRead, diskVars, shardVars, runVars>>

\* clean_for_illumina_flag(read)
CallClean ==
  /\ fnName = "none"
  /\ fnArg' = inRead
  /\ fnRet' = clean_for_illumina_flag(inRead)
  /\ prevName' = fnName
  /\ fnName' = "clean_for_illumina_flag"
  /\ UNCHANGED <<cfgVars, inRead, diskVars, shardVars, runVars>>

\* list(processed_sequences(primer, [read], ...)), as the tests call it
CallProcessed ==
  /\ fnName = "none"
  /\ fnArg' = <<inRead>>
  /\ fnRet' = processed_sequences(primer, <<inRead>>, min_sequence_len,
                                  min_primer_match, max_primer_offset)
  /\ prevName' = fnName
  /\ fnName' = "processed_sequences"
  /\ UNCHANGED <<cfgVars, inRead, diskVars, shardVars, runVars>>

\* clean_for_illumina_flag on the read testInternalBadReadSkippedByCleaning
\* makes from the baseline
CallCleanInternalBad ==
  /\ fnName = "none"
  /\ fnArg' = InternalBadRead
  /\ fnRet' = clean_for_illumina_flag(InternalBadRead)
  /\ prevName' = fnName
  /\ fnName' = "clean_for_illumina_flag"
  /\ UNCHANGED <<cfgVars, inRead, diskVars, shardVars, runVars>>

NextFn ==
  \/ CallTrimPrimer
  \/ CallTrimPrimerAgain
  \/ CallClean
  \/ CallCleanInternalBad
  \/ CallProcessed

SpecFn == InitFn /\ [][NextFn]_vars

\* ------------------------------------------------------------------------
\* trim_primers_from_file: one worker process, k its place in processes
\* ------------------------------------------------------------------------
InputOf(k) == fileData[processes[k].input_file].records

\* sequences = SeqIO.parse(...); output_file = open(output_name, 'w'):
\* the output file is created or truncated, the worker's offset is 0
WorkerOpen(k) ==
  /\ processes[k].state = "started"
  /\ processes' = [processes EXCEPT ![k].state = "running"]
  /\ outFiles' = [outFiles EXCEPT ![output_name(processes[k].input_file)] = File(<<>>)]
  /\ UNCHANGED <<cfgVars, fnVars, diskVars, shardVars, mainVars>>

\* the process ends. After a return (code 0) the file object is closed,
\* which writes its buffer; after an exception the buffer is written or lost
\* (flushed), as the interpreter's teardown decides.
WorkerExit_no_flush(k, code, flushed) ==
  /\ processes' = [processes EXCEPT ![k].state = "exited",
                                     ![k].exitcode = code,
                                     ![k].buffer = <<>>]
  /\ UNCHANGED outFiles

WorkerExit(k, code, flushed) ==
  LET w == processes[k]
      o == output_name(w.input_file)
  IN  /\ processes' = [processes EXCEPT ![k].state = "exited",
                                         ![k].exitcode = code,
                                         ![k].buffer = <<>>,
                                         ![k].offset =
                                            IF flushed THEN w.offset + Len(w.buffer)
                                            ELSE w.offset]
      /\ outFiles' = [outFiles EXCEPT ![o] =
                        IF flushed
                        THEN File(FileWrite(outFiles[o].records, w.offset, w.buffer))
                        ELSE outFiles[o]]

\* WorkerPull that reads ahead: the next record is pulled whether or not the
\* one before it has been processed
WorkerPull_ahead(k) ==
  LET w == processes[k]
  IN  /\ w.state = "running"
      /\ IF w.pulled = Len(InputOf(k))
         THEN WorkerExit(k, 0, TRUE)
         ELSE IF InputOf(k)[w.pulled + 1] = Malformed
         THEN \E flushed \in BOOLEAN : WorkerExit(k, 1, flushed)
         ELSE /\ processes' = [processes EXCEPT ![k].pulled = w.pulled + 1,
                                                ![k].seq = InputOf(k)[w.pulled + 1]]
              /\ UNCHANGED outFiles
      /\ UNCHANGED <<cfgVars, fnVars, diskVars, shardVars, mainVars>>

\* the for loop asks the generators for the next element, which asks the
\* parser for the next record: a record, a parse error, or the end
WorkerPull(k) ==
  LET w == processes[k]
  IN  /\ w.state = "running"
      /\ w.seq = None
      /\ IF w.pulled = Len(InputOf(k))
         THEN WorkerExit(k, 0, TRUE)
         ELSE IF InputOf(k)[w.pulled + 1] = Malformed
         THEN \E flushed \in BOOLEAN : WorkerExit(k, 1, flushed)
         ELSE /\ processes' = [processes EXCEPT ![k].pulled = w.pulled + 1,
                                                ![k].seq = InputOf(k)[w.pulled + 1]]
              /\ UNCHANGED outFiles
      /\ UNCHANGED <<cfgVars, fnVars, diskVars, shardVars, mainVars>>

\* the record goes through processed_sequences; a survivor is handed to
\* output_file.write, which buffers it and writes the buffer out when full
WorkerProcess(k) ==
  LET w == processes[k]
      o == output_name(w.input_file)
      out == processed_sequences(w.primer, <<w.seq>>, min_sequence_len,
                                 min_primer_match, max_primer_offset)
      nd == w.dropped + (IF out = <<>> THEN 1 ELSE 0)
  IN  /\ w.state = "running"
      /\ w.seq # None
      /\ \E flush \in BOOLEAN :
           LET buf == w.buffer \o out
           IN  IF flush /\ buf # <<>>
               THEN /\ processes' = [processes EXCEPT ![k].seq = None,
                                       ![k].written = w.written \o out,
                                       ![k].dropped = nd,
                                       ![k].buffer = <<>>,
                                       ![k].offset = w.offset + Len(buf)]
                    /\ outFiles' = [outFiles EXCEPT ![o] =
                                      File(FileWrite(outFiles[o].records, w.offset, buf))]
               ELSE /\ ~flush
                    /\ processes' = [processes EXCEPT ![k].seq = None,
                                       ![k].written = w.written \o out,
                                       ![k].dropped = nd,
                                       ![k].buffer = buf]
                    /\ UNCHANGED outFiles
      /\ UNCHANGED <<cfgVars, fnVars, diskVars, shardVars, mainVars>>

\* LoadPrimer that goes on with an empty primer when the file cannot be read
LoadPrimer_continue ==
  /\ mainPc = "load_primer"
  /\ primer' = IF primerFile.readable THEN readline(primerFile.line) ELSE <<>>
  /\ mainPc' = "collect"
  /\ mainIdx' = 1
  /\ UNCHANGED <<min_sequence_len, min_primer_match, max_primer_offset,
                 fnVars, diskVars, shardVars, outFiles, processes, fatalLog, exitStatus>>

\* ------------------------------------------------------------------------
\* main
\* ------------------------------------------------------------------------
\* primer = open(options.primer_file, 'r').readline(); an unreadable file
\* raises and ends the program with status 1
LoadPrimer ==
  /\ mainPc = "load_primer"
  /\ IF primerFile.readable
     THEN /\ primer' = readline(primerFile.line)
          /\ mainPc' = "collect"
          /\ mainIdx' = 1
          /\ UNCHANGED exitStatus
     ELSE /\ mainPc' = "crashed"
          /\ exitStatus' = 1
          /\ UNCHANGED <<primer, mainIdx>>
  /\ UNCHANGED <<min_sequence_len, min_primer_match, max_primer_offset,
                 fnVars, diskVars, shardVars, outFiles, processes, fatalLog>>

\* CollectArg with a return at the first missing path (collection stops there)
CollectArg_stop_at_missing ==
  /\ mainPc = "collect"
  /\ mainIdx <= Len(args)
  /\ LET f == args[mainIdx]
     IN  IF fileData[f].exists
         THEN /\ processes' = Append(processes, NewProcess(f))
              /\ mainIdx' = mainIdx + 1
              /\ UNCHANGED fatalLog
         ELSE /\ fatalLog' = Append(fatalLog, f)
              /\ mainIdx' = Len(args) + 1
              /\ UNCHANGED processes
  /\ UNCHANGED <<cfgVars, fnVars, diskVars, shardVars, outFiles, mainPc, exitStatus>>

\* for f in args: one Process per path that exists, logging.fatal otherwise
CollectArg ==
  /\ mainPc = "collect"
  /\ mainIdx <= Len(args)
  /\ LET f == args[mainIdx]
     IN  IF fileData[f].exists
         THEN /\ processes' = Append(processes, NewProcess(f))
              /\ UNCHANGED fatalLog
         ELSE /\ fatalLog' = Append(fatalLog, f)
              /\ UNCHANGED processes
  /\ mainIdx' = mainIdx + 1
  /\ UNCHANGED <<cfgVars, fnVars, diskVars, shardVars, outFiles, mainPc, exitStatus>>

CollectDone ==
  /\ mainPc = "collect"
  /\ mainIdx > Len(args)
  /\ mainPc' = "start"
  /\ mainIdx' = 1
  /\ UNCHANGED <<cfgVars, fnVars, diskVars, shardVars, outFiles, processes, fatalLog, exitStatus>>

\* for p in processes: p.start()
StartProcess ==
  /\ mainPc = "start"
  /\ mainIdx <= Len(processes)
  /\ processes' = [processes EXCEPT ![mainIdx].state = "started"]
  /\ mainIdx' = mainIdx + 1
  /\ UNCHANGED <<cfgVars, fnVars, diskVars, shardVars, outFiles, mainPc, fatalLog, exitStatus>>

StartDone ==
  /\ mainPc = "start"
  /\ mainIdx > Len(processes)
  /\ mainPc' = "join"
  /\ mainIdx' = 1
  /\ UNCHANGED <<cfgVars, fnVars, diskVars, shardVars, outFiles, processes, fatalLog, exitStatus>>

\* JoinProcess that does not wait for the worker (a join that times out)
JoinProcess_no_wait ==
  /\ mainPc = "join"
  /\ mainIdx <= Len(processes)
  /\ mainIdx' = mainIdx + 1
  /\ UNCHANGED <<cfgVars, fnVars, diskVars, shardVars, outFiles, processes, mainPc,
                 fatalLog, exitStatus>>

\* for p in processes: p.join() returns once the process has ended; its
\* exitcode is not looked at
JoinProcess ==
  /\ mainPc = "join"
  /\ mainIdx <= Len(processes)
  /\ processes[mainIdx].state = "exited"
  /\ mainIdx' = mainIdx + 1
  /\ UNCHANGED <<cfgVars, fnVars, diskVars, shardVars, outFiles, processes, mainPc,
                 fatalLog, exitStatus>>

\* main returns None and sys.exit(None) ends the program with status 0
MainReturn ==
  /\ mainPc = "join"
  /\ mainIdx > Len(processes)
  /\ mainPc' = "exit"
  /\ exitStatus' = 0
  /\ UNCHANGED <<cfgVars, fnVars, diskVars, shardVars, outFiles, processes, mainIdx, fatalLog>>

\* ------------------------------------------------------------------------
\* Spec: the program run on a command line
\* ------------------------------------------------------------------------
Init ==
  /\ NoCalls
  /\ primer = <<>>
  /\ min_sequence_len = 2
  /\ min_primer_match = 1
  /\ max_primer_offset = 1
  /\ args \in SeqsUpTo(Paths, MaxArgs)
  /\ fileData \in {d \in Disks({args[i] : i \in DOMAIN args}) :
                    \A f \in Paths : d[f] \in FilesAt(f)}
  /\ primerFile \in {[readable |-> TRUE, line |-> <<"A", "C">>],
                     [readable |-> FALSE, line |-> <<>>]}
  /\ outFiles = [o \in OutPaths |-> Missing]
  /\ mainPc = "load_primer"
  /\ mainIdx = 0
  /\ processes = <<>>
  /\ fatalLog = <<>>
  /\ exitStatus = None
  /\ NoShard

Next ==
  \/ LoadPrimer
  \/ CollectArg
  \/ CollectDone
  \/ StartProcess
  \/ StartDone
  \/ JoinProcess
  \/ MainReturn
  \/ \E k \in DOMAIN processes : WorkerOpen(k)
  \/ \E k \in DOMAIN processes : WorkerPull(k)
  \/ \E k \in DOMAIN processes : WorkerProcess(k)

Spec == Init /\ [][Next]_vars

\* ------------------------------------------------------------------------
\* SpecFile: trim_primers_from_file called on one file
\* ------------------------------------------------------------------------
InitFile ==
  /\ NoCalls
  /\ primer = <<"A", "C">>
  /\ min_sequence_len = 2
  /\ min_primer_match = 1
  /\ max_primer_offset = 1
  /\ args = <<PathAX>>
  /\ \E kinds \in SeqsUpTo(Kinds, MaxStreamLen) :
       fileData = [f \in Paths |->
                     IF f = PathAX THEN File(MakeFile("r", kinds)) ELSE Missing]
  /\ primerFile = [readable |-> TRUE, line |-> <<"A", "C">>]
  /\ outFiles = [o \in OutPaths |-> Missing]
  /\ mainPc = "none"
  /\ mainIdx = 0
  /\ processes = <<[NewProcess(PathAX) EXCEPT !.state = "started"]>>
  /\ fatalLog = <<>>
  /\ exitStatus = None
  /\ NoShard

NextFile ==
  \/ \E k \in DOMAIN processes : WorkerOpen(k)
  \/ \E k \in DOMAIN processes : WorkerPull(k)
  \/ \E k \in DOMAIN processes : WorkerProcess(k)

SpecFile == InitFile /\ [][NextFile]_vars

\* ------------------------------------------------------------------------
\* SpecShard: shard_alignments_by_chrom.process_input_files
\* ------------------------------------------------------------------------
\* '_' in x.iv.chrom
HasUnderscore(chrom) == \E i \in DOMAIN chrom : chrom[i] = "_"

\* the one aligned alignment on a chromosome without '_', or None
select_alignment(alignments) ==
  LET aligned == SelectSeq(alignments, LAMBDA x : x.aligned)
      plain == SelectSeq(aligned, LAMBDA x : ~HasUnderscore(x.chrom))
  IN  IF Len(plain) = 1 THEN plain[1] ELSE None

\* the line written for an alignment: get_sam_line() with blanks turned into
\* tabs, and a newline; it names the read and the chromosome
SamLine(name, alignment) == [read |-> name, chrom |-> alignment.chrom]

\* one pass of "for name, grouper in groups", over the input files in turn;
\* read names are numbered as the groups come
ShardGroup ==
  /\ shardPc = "groups"
  /\ n_seen < MaxGroups
  /\ \E grouper \in Groups :
       LET name == n_seen + 1
           alignment == select_alignment(grouper)
           shard == alignment.chrom
       IN  /\ n_seen' = n_seen + 1
           /\ IF alignment = None
              THEN UNCHANGED <<shard_files, total_aligned, selected>>
              ELSE IF shard \in {ChrMito, TwoMicron}
              THEN UNCHANGED <<shard_files, total_aligned, selected>>
              ELSE /\ IF shard_files[shard].exists
                      THEN shard_files' =
                             [shard_files EXCEPT ![shard] =
                                File(Append(@.records, SamLine(name, alignment)))]
                      ELSE shard_files' = [shard_files EXCEPT ![shard] = File(<<>>)]
                   /\ total_aligned' = total_aligned + 1
                   /\ selected' = Append(selected, SamLine(name, alignment))
  /\ UNCHANGED <<shardPc, count_file, cfgVars, fnVars, diskVars, runVars>>

\* after the loops: str(total_aligned) and a newline go to the count file
ShardFinish ==
  /\ shardPc = "groups"
  /\ count_file' = File(<<ToString(total_aligned), "\n">>)
  /\ shardPc' = "done"
  /\ UNCHANGED <<n_seen, total_aligned, shard_files, selected,
                 cfgVars, fnVars, diskVars, runVars>>

InitShard ==
  /\ NoCalls
  /\ NoDisk
  /\ primer = <<>>
  /\ min_sequence_len = 0
  /\ min_primer_match = 0
  /\ max_primer_offset = 0
  /\ shardPc = "groups"
  /\ n_seen = 0
  /\ total_aligned = 0
  /\ shard_files = [c \in Chroms |-> Missing]
  /\ count_file = Missing
  /\ selected = <<>>

NextShard == ShardGroup \/ ShardFinish

SpecShard == InitShard /\ [][NextShard]_vars

\* ------------------------------------------------------------------------
\* Vocabulary of the properties
\* ------------------------------------------------------------------------
\* a[i .. i+k) = b[j .. j+k), 0-based
CommonAt(a, b, i, j, k) ==
  /\ i + k <= Len(a)
  /\ j + k <= Len(b)
  /\ \A d \in 1..k : a[i + d] = b[j + d]

CommonBlocks(a, b) ==
  {m \in [a : 0..Len(a), b : 0..Len(b), size : 0..Min(Len(a), Len(b))] :
     CommonAt(a, b, m.a, m.b, m.size)}

\* the longest common block; of those the leftmost in a, then leftmost in b
LongestCommon(a, b) ==
  CHOOSE m \in CommonBlocks(a, b) :
    \A o \in CommonBlocks(a, b) :
      \/ o.size < m.size
      \/ o.size = m.size /\ (m.size = 0 \/ m.a < o.a \/ (m.a = o.a /\ m.b <= o.b))

Qualifies(m) == m.size > min_primer_match /\ m.b <= max_primer_offset

AllRejected(r) == \A i \in 1..RLen(r) : r.qual[i] = Reject

\* ------------------------------------------------------------------------
\* Properties of the functions (checked under SpecFn)
\* ------------------------------------------------------------------------

\* C1: when the longest common block of read and primer is longer than
\* min_primer_match and starts in the primer at or before max_primer_offset,
\* trim_primer returns the read cut to [0, match.a): the block and every
\* base after it are gone, letters and qualities alike.
C1_TrimCutsAtMatchStart ==
  fnName = "trim_primer" =>
    LET m == LongestCommon(fnArg.seq, primer)
    IN  Qualifies(m) =>
          /\ fnRet.seq = SubSeq(fnArg.seq, 1, m.a)
          /\ fnRet.qual = SubSeq(fnArg.qual, 1, m.a)
          /\ fnRet.id = fnArg.id

\* a qualifying block in the middle of the read: bases before and after it
C1_Witness ==
  /\ fnName = "trim_primer"
  /\ LET m == LongestCommon(fnArg.seq, primer)
     IN  /\ Qualifies(m)
         /\ m.a > 0
         /\ m.a + m.size < RLen(fnArg)
         /\ RLen(fnRet) = m.a

\* C2: when the longest common block is not longer than min_primer_match or
\* starts in the primer after max_primer_offset, trim_primer returns the read
\* as it is, and a second trim_primer of the result changes nothing either.
C2_NoQualifyingMatchUnchanged ==
  fnName = "trim_primer" =>
    /\ ~Qualifies(LongestCommon(fnArg.seq, primer)) => fnRet = fnArg
    /\ (prevName = "trim_primer" /\ ~Qualifies(LongestCommon(inRead.seq, primer)))
         => (fnArg = inRead /\ fnRet = fnArg)

\* two calls in a row on a read whose block is long enough but starts too
\* far into the primer
C2_Witness ==
  /\ fnName = "trim_primer"
  /\ prevName = "trim_primer"
  /\ LET m == LongestCommon(inRead.seq, primer)
     IN  m.size > min_primer_match /\ m.b > max_primer_offset
  /\ fnRet = inRead

\* C3 (as claimed): when some quality differs from 2, the quality trim
\* returns the read cut to [0, k], k the largest index with quality[k] # 2,
\* wherever k is, index 0 included.
C3_CutAfterLastGood ==
  (fnName = "clean_for_illumina_flag" /\ ~AllRejected(fnArg)) =>
    LET good == {i \in 1..RLen(fnArg) : fnArg.qual[i] # Reject}
        k == CHOOSE i \in good : \A h \in good : h <= i
    IN  fnRet = RSlice(fnArg, k)

C5_EmittedIsTrimmedCleanedLongEnough ==
  fnName = "processed_sequences" =>
    LET ct == clean_for_illumina_flag(
                trim_primer(primer, inRead, min_primer_match, max_primer_offset))
    IN  /\ \A i \in 1..Len(fnRet) :
             fnRet[i] = ct /\ RLen(fnRet[i]) >= min_sequence_len
        /\ Len(fnRet) <= 1
        /\ RLen(ct) < min_sequence_len => fnRet = <<>>
        /\ RLen(ct) = min_sequence_len => fnRet = <<ct>>

\* a read shortened on the way and emitted with exactly the minimum length
C5_Witness ==
  /\ fnName = "processed_sequences"
  /\ Len(fnRet) = 1
  /\ RLen(fnRet[1]) < RLen(inRead)
  /\ RLen(fnRet[1]) = min_sequence_len
  /\ min_sequence_len > 0

\* out is input[0:n) for some n: same identifier, letters and qualities cut
\* at the same place
IsPrefixOf(out, input) ==
  /\ out.id = input.id
  /\ Len(out.seq) = Len(out.qual)
  /\ Len(out.seq) <= Len(input.seq)
  /\ \A i \in 1..Len(out.seq) :
       out.seq[i] = input.seq[i] /\ out.qual[i] = input.qual[i]

\* C14: what trim_primer returns, what the quality trim returns and what the
\* whole pipeline emits is a prefix of the read given: no base or quality is
\* changed, reordered or added, letters and qualities keep equal length, and
\* the result is never longer than the input.
C14_ResultsArePrefixes ==
  /\ fnName \in {"trim_primer", "clean_for_illumina_flag"} =>
       IsPrefixOf(fnRet, fnArg)
  /\ fnName = "trim_primer" => IsPrefixOf(fnRet, inRead)
  /\ fnName = "processed_sequences" =>
       \A i \in 1..Len(fnRet) : IsPrefixOf(fnRet[i], inRead)

\* the pipeline emitted a read it had shortened, but not to nothing
C14_Witness ==
  /\ fnName = "processed_sequences"
  /\ Len(fnRet) = 1
  /\ RLen(fnRet[1]) > 0
  /\ RLen(fnRet[1]) < RLen(inRead)
  /\ IsPrefixOf(fnRet[1], inRead)

\* C15: a read at least min_sequence_len long whose last quality is not 2
\* and whose longest common block with the primer does not qualify is
\* emitted by the pipeline as it came in, letters and qualities alike; this
\* includes reads of length 1 when min_sequence_len <= 1.
C15_CleanReadPassesUnchanged ==
  (/\ fnName = "processed_sequences"
   /\ RLen(inRead) >= 1
   /\ RLen(inRead) >= min_sequence_len
   /\ inRead.qual[RLen(inRead)] # Reject
   /\ ~Qualifies(LongestCommon(inRead.seq, primer)))
    => fnRet = <<inRead>>

\* a read of length 1 with a good quality, a base in common with the primer
\* that is too short a block to qualify, and min_sequence_len 1
C15_Witness ==
  /\ fnName = "processed_sequences"
  /\ RLen(inRead) = 1
  /\ min_sequence_len = 1
  /\ inRead.qual[1] # Reject
  /\ LongestCommon(inRead.seq, primer).size = 1
  /\ ~Qualifies(LongestCommon(inRead.seq, primer))
  /\ fnRet = <<inRead>>

\* C17: the match trim_primer uses is a block common to read and primer,
\* read[a, a+size) = primer[b, b+size) with a >= 0, b >= 0 and the block
\* inside both; no common block is longer; of the common blocks of that
\* length none starts further left in the read; trim_primer returns the
\* read as it is or cut at that block's start.
C17_MatchIsLeftmostLongest ==
  fnName = "trim_primer" =>
    LET m == find_longest_match(fnArg.seq, primer)
    IN  /\ m.a >= 0 /\ m.b >= 0 /\ m.size >= 0
        /\ m.size <= Min(RLen(fnArg) - m.a, Len(primer) - m.b)
        /\ \A d \in 1..m.size : fnArg.seq[m.a + d] = primer[m.b + d]
        /\ \A o \in CommonBlocks(fnArg.seq, primer) :
             /\ o.size <= m.size
             /\ (o.size = m.size /\ m.size > 0) => m.a <= o.a
        /\ fnRet \in {fnArg, RSlice(fnArg, m.a)}

\* two common blocks of the greatest length at different places in the read,
\* and the read was cut at the left one
C17_Witness ==
  /\ fnName = "trim_primer"
  /\ LET m == find_longest_match(fnArg.seq, primer)
     IN  /\ m.size >= 1
         /\ \E o \in CommonBlocks(fnArg.seq, primer) : o.size = m.size /\ o.a > m.a
         /\ m.a >= 1
         /\ fnRet = RSlice(fnArg, m.a)
         /\ fnRet # fnArg

\* C18: the quality trim removes only a trailing run of quality 2: every
\* position it removes has quality 2, a position with another quality is
\* never removed, and a quality-2 position with a good one somewhere after
\* it stays in the output; the read of the test, 41 bases with quality 2 at
\* [5, 10) and at the last 5 positions, comes out 36 long.
C18_OnlyTrailingSentinelsRemoved ==
  fnName = "clean_for_illumina_flag" =>
    /\ IsPrefixOf(fnRet, fnArg)
    /\ \A i \in (RLen(fnRet) + 1)..RLen(fnArg) : fnArg.qual[i] = Reject
    /\ \A i \in 1..RLen(fnArg) :
         fnArg.qual[i] # Reject => (i <= RLen(fnRet) /\ fnRet.qual[i] = fnArg.qual[i])
    /\ \A i, j \in 1..RLen(fnArg) :
         (i < j /\ fnArg.qual[i] = Reject /\ fnArg.qual[j] # Reject)
           => (i <= RLen(fnRet) /\ fnRet.qual[i] = Reject)
    /\ fnArg = InternalBadRead => RLen(fnRet) = CleanedLen

\* the read of the test has been cleaned: the trailing run is gone, the run
\* inside the read is still there
C18_Witness ==
  /\ fnName = "clean_for_illumina_flag"
  /\ fnArg = InternalBadRead
  /\ RLen(fnRet) = CleanedLen
  /\ fnRet.qual[BadRunStart + 1] = Reject
  /\ fnRet.qual[CleanedLen] # Reject

\* C19 (as claimed): trim_primer applied to what trim_primer returned
\* returns it unchanged, for every read.
C19_TrimIdempotent ==
  (fnName = "trim_primer" /\ prevName = "trim_primer") => fnRet = fnArg

\* C19 (amended): after a cut every block the result has in common with the
\* primer is shorter than the block that was removed, and a second
\* trim_primer leaves the result unchanged exactly when the longest of them
\* does not qualify; when it qualifies the result is cut again, at it.
C19_SecondTrimOnlyAtShorterBlock ==
  (fnName = "trim_primer" /\ prevName = "trim_primer") =>
    LET m1 == LongestCommon(inRead.seq, primer)
        m2 == LongestCommon(fnArg.seq, primer)
    IN  /\ Qualifies(m1) => m2.size < m1.size
        /\ fnRet = fnArg <=> ~Qualifies(m2)
        /\ Qualifies(m2) => fnRet = RSlice(fnArg, m2.a)

\* the read was cut, and the second trim_primer cut the result again
C19_Witness ==
  /\ fnName = "trim_primer"
  /\ prevName = "trim_primer"
  /\ Qualifies(LongestCommon(inRead.seq, primer))
  /\ Qualifies(LongestCommon(fnArg.seq, primer))
  /\ RLen(fnArg) < RLen(inRead)
  /\ RLen(fnRet) < RLen(fnArg)

\* C7 (as claimed): a read whose qualities are all 2 yields no output.
C7_AllRejectedDropped ==
  (fnName = "processed_sequences" /\ RLen(inRead) >= 1 /\ AllRejected(inRead))
    => fnRet = <<>>

\* ------------------------------------------------------------------------
\* Properties of one worker (checked under SpecFile)
\* ------------------------------------------------------------------------
\* the place of a written record in the input, by its identifier
PlaceIn(input, rec) == CHOOSE j \in DOMAIN input : IsRead(input[j]) /\ input[j].id = rec.id

\* the records a worker is through with: pulled, and written or dropped
DoneWith(w) == w.pulled - (IF w.seq # None THEN 1 ELSE 0)

\* C6: what a worker hands to output_file.write is, in input order, the
\* trimmed and cleaned image of some of the reads it is through with, at most
\* one record per read; after a return the output file holds exactly that.
C6_OrderPreservingFilter ==
  \A k \in DOMAIN processes :
    LET w == processes[k]
        input == InputOf(k)
    IN  /\ \A i \in DOMAIN w.written :
             \E j \in 1..DoneWith(w) :
               /\ IsRead(input[j])
               /\ w.written[i] = clean_for_illumina_flag(
                    trim_primer(primer, input[j], min_primer_match, max_primer_offset))
        /\ \A i1, i2 \in DOMAIN w.written :
             i1 < i2 => PlaceIn(input, w.written[i1]) < PlaceIn(input, w.written[i2])
        /\ Len(w.written) <= DoneWith(w)
        /\ (w.state = "exited" /\ w.exitcode = 0) =>
             outFiles[output_name(w.input_file)] = File(w.written)

\* two reads of which only the second survives: one record in the file, the
\* image of the second read
C6_Witness ==
  /\ Len(processes) = 1
  /\ processes[1].state = "exited"
  /\ processes[1].exitcode = 0
  /\ Len(InputOf(1)) = 2
  /\ RLen(InputOf(1)[1]) < min_sequence_len
  /\ Len(outFiles[output_name(processes[1].input_file)].records) = 1
  /\ outFiles[output_name(processes[1].input_file)].records[1].id = InputOf(1)[2].id

\* the reads a worker has handed to output_file.write or has filtered out
WrittenOrDropped(w) == Len(w.written) + w.dropped

\* at most the one read in hand is pulled and not yet written or dropped
AtMostOneInFlight ==
  \A k \in DOMAIN processes :
    LET w == processes[k]
    IN  /\ w.pulled - WrittenOrDropped(w) = (IF w.seq # None THEN 1 ELSE 0)
        /\ w.pulled <= Len(InputOf(k))
        /\ w.seq # None => w.seq = InputOf(k)[w.pulled]
        /\ (w.state = "exited" /\ w.exitcode = 0) => w.pulled = Len(InputOf(k))

\* a pull takes the record after the last one pulled, and only when the
\* last one pulled has been written or dropped
PullsInTurn ==
  \A k \in DOMAIN processes :
    LET w == processes[k]
        v == processes'[k]
    IN  v.pulled # w.pulled =>
          /\ v.pulled = w.pulled + 1
          /\ w.pulled = WrittenOrDropped(w)
          /\ v.seq = InputOf(k)[v.pulled]
          /\ WrittenOrDropped(v) = WrittenOrDropped(w)

\* C16: at every point of a worker's run the reads pulled from the input
\* exceed the reads written or dropped by at most one; read i+1 is pulled
\* only after read i has been written or dropped; every read is pulled once,
\* in input order, and a worker that returns has pulled them all.
C16_StreamingSinglePass ==
  []AtMostOneInFlight /\ [][PullsInTurn]_vars

\* the second read is in hand, the first has been dropped, none written yet
C16_Witness ==
  /\ Len(processes) = 1
  /\ processes[1].state = "running"
  /\ processes[1].pulled = 2
  /\ processes[1].seq # None
  /\ processes[1].dropped = 1
  /\ processes[1].written = <<>>
  /\ Len(InputOf(1)) = 3

\* ------------------------------------------------------------------------
\* Properties of the dispatcher (checked under Spec)
\* ------------------------------------------------------------------------
Failed(k) == processes[k].state = "exited" /\ processes[k].exitcode # 0

\* C8 (as claimed): when an input file is missing or a worker has failed,
\* the program does not end with the status of a run in which all succeeded.
C8_FailureChangesOutcome ==
  (mainPc = "exit" /\ (fatalLog # <<>> \/ \E k \in DOMAIN processes : Failed(k)))
    => exitStatus # 0

\* C9 (as claimed): when a worker has failed, every other worker that ran
\* to its end leaves in its output file the filtered output of its own input.
C9_SiblingFailureIsolated ==
  mainPc = "exit" =>
    \A k \in DOMAIN processes :
      (processes[k].exitcode = 0 /\ \E j \in DOMAIN processes : j # k /\ Failed(j))
        => outFiles[output_name(processes[k].input_file)] =
             File(processed_sequences(primer, InputOf(k), min_sequence_len,
                                      min_primer_match, max_primer_offset))

\* C10 (as claimed): workers for two different input paths have opened two
\* different output files.
C10_DistinctOutputs ==
  \A i, j \in DOMAIN processes :
    (/\ i # j
     /\ processes[i].state \in {"running", "exited"}
     /\ processes[j].state \in {"running", "exited"}
     /\ processes[i].input_file # processes[j].input_file)
      => output_name(processes[i].input_file) # output_name(processes[j].input_file)

\* ------------------------------------------------------------------------
\* the paths of the command line that exist, and those that do not, in order
Existing(paths) == SelectSeq(paths, LAMBDA f : fileData[f].exists)

MissingOf(paths) == SelectSeq(paths, LAMBDA f : ~fileData[f].exists)

Collected == mainPc \in {"start", "join", "exit"}

Dispatched == mainPc \in {"join", "exit"}

\* C11: a path that does not exist is logged and skipped: no worker is ever
\* created or started for it and no worker creates an output file on its
\* behalf, while every path that exists gets a worker, which is started,
\* wherever the missing paths stand in the argument list.
C11_MissingSkippedOthersStarted ==
  /\ \A k \in DOMAIN processes : fileData[processes[k].input_file].exists
  /\ Collected =>
       /\ [k \in DOMAIN processes |-> processes[k].input_file] = Existing(args)
       /\ fatalLog = MissingOf(args)
  /\ Dispatched => \A k \in DOMAIN processes : processes[k].state # "initial"
  /\ \A o \in OutPaths :
       outFiles[o].exists =>
         \E k \in DOMAIN processes :
           /\ processes[k].state \in {"running", "exited"}
           /\ fileData[processes[k].input_file].exists
           /\ output_name(processes[k].input_file) = o

\* a missing path stands before an existing one, whose worker has run
C11_Witness ==
  /\ mainPc = "exit"
  /\ Len(args) = 2
  /\ ~fileData[args[1]].exists
  /\ fileData[args[2]].exists
  /\ fatalLog = <<args[1]>>
  /\ Len(processes) = 1
  /\ processes[1].input_file = args[2]
  /\ processes[1].state = "exited"

\* ------------------------------------------------------------------------
\* the worker ended by its own doing: it met the end of its input
\* (completion) or a record the parser rejects (failure)
RanToItsEnd(k) ==
  LET w == processes[k]
  IN  /\ w.seq = None
      /\ \/ w.exitcode = 0 /\ w.pulled = Len(InputOf(k))
         \/ /\ w.exitcode = 1
            /\ w.pulled < Len(InputOf(k))
            /\ InputOf(k)[w.pulled + 1] = Malformed

\* C12: main returns only after every worker has terminated, main waits on
\* no worker before all of them are started, the workers main has waited on
\* have terminated, and a worker terminates only by completion or failure
\* of its own (it is never cancelled or timed out).
C12_MainWaitsForAllWorkers ==
  /\ mainPc = "exit" => \A k \in DOMAIN processes : processes[k].state = "exited"
  /\ mainPc = "join" =>
       /\ \A k \in DOMAIN processes : processes[k].state # "initial"
       /\ \A k \in DOMAIN processes :
            k < mainIdx => processes[k].state = "exited"
  /\ mainPc \in {"load_primer", "collect", "crashed"} =>
       \A k \in DOMAIN processes : processes[k].state = "initial"
  /\ \A k \in DOMAIN processes :
       processes[k].state = "exited" => RanToItsEnd(k)

\* main has returned after two workers, one completed and one failed
C12_Witness ==
  /\ mainPc = "exit"
  /\ Len(processes) = 2
  /\ processes[1].state = "exited"
  /\ processes[2].state = "exited"
  /\ processes[1].exitcode = 1
  /\ processes[2].exitcode = 0

\* ------------------------------------------------------------------------
\* what every state of a run shows about the primer
PrimerLoadedBeforeDispatch ==
  /\ mainPc \in {"load_primer", "crashed"} =>
       /\ processes = <<>>
       /\ \A o \in OutPaths : ~outFiles[o].exists
  /\ mainPc \notin {"load_primer", "crashed"} =>
       /\ primerFile.readable
       /\ primer = readline(primerFile.line)
  /\ \A k \in DOMAIN processes : processes[k].primer = primer
  /\ ~primerFile.readable =>
       /\ mainPc \in {"load_primer", "crashed"}
       /\ \A o \in OutPaths : outFiles[o] = Missing

\* C13: the primer is loaded once, by main's first step and before any
\* worker exists; every worker holds that value and neither main nor a
\* worker changes it afterwards; when the primer file cannot be read the
\* run stops there, with no worker and no output file.
C13_PrimerLoadedOnceThenShared ==
  /\ []PrimerLoadedBeforeDispatch
  /\ [][/\ primer' # primer => mainPc = "load_primer"
        /\ \A k \in DOMAIN processes :
             k \in DOMAIN processes' /\ processes'[k].primer = processes[k].primer]_vars

\* the run was aborted although an input file was there to be processed
C13_Witness ==
  /\ mainPc = "crashed"
  /\ ~primerFile.readable
  /\ args # <<>>
  /\ fileData[args[1]].exists
  /\ processes = <<>>

\* ------------------------------------------------------------------------
\* Properties of process_input_files (checked under SpecShard)
\* ------------------------------------------------------------------------
RECURSIVE SumLines(_)
SumLines(cs) ==
  IF cs = {} THEN 0
  ELSE LET c == CHOOSE x \in cs : TRUE
       IN  Len(shard_files[c].records) + SumLines(cs \ {c})

\* the alignment lines in all shard files together
LinesWritten == SumLines(Chroms)

\* how often a line stands in the shard file of its chromosome
TimesWritten(line) ==
  Cardinality({i \in DOMAIN shard_files[line.chrom].records :
                 shard_files[line.chrom].records[i] = line})

\* C20 (as claimed): when process_input_files is done the number in the
\* count file is the number of alignment lines in all shard files, and
\* every alignment selected for a chromosome other than chrMito / 2-micron
\* stands exactly once in that chromosome's shard file, the first one seen
\* for a chromosome included.
C20_CountEqualsLinesWritten ==
  shardPc = "done" =>
    /\ count_file = File(<<ToString(LinesWritten), "\n">>)
    /\ \A i \in DOMAIN selected : TimesWritten(selected[i]) = 1

====
